---- MODULE Spec2Model ----
(***************************************************************************)
(* Model of the YouTube marketing tool: the FastAPI shell (src/app.py) and *)
(* the Streamlit dashboard (src/streamlit_app.py) over the video-platform  *)
(* collaborator.                                                           *)
(*                                                                         *)
(* Conventions                                                             *)
(*  - A raw resource is a TLA+ record used like a Python dict: a key that  *)
(*    the collaborator did not send is absent from DOMAIN.  d['k'] on an   *)
(*    absent key is a KeyError; d.get('k', x) is Get(d, "k", x).           *)
(*  - The result of a try body is a record [exc, status, value, calls]:    *)
(*    exc = "none" for a normal return, otherwise the exception's class.   *)
(*  - A value rounded to 2 decimals is kept as an integer number of        *)
(*    hundredths (engagement_rate 5.5 is 550).                             *)
(*  - A float that is not rounded is kept as a fraction [num, den].        *)
(*  - A count of the platform is kept as the natural number its decimal    *)
(*    string denotes, and int() of it is that number; strings that int()   *)
(*    rejects are not among the inputs.                                    *)
(***************************************************************************)
EXTENDS Integers, Sequences, FiniteSets, TLC

VARIABLES
    shell,    \* which program this process runs: "api" (app.py) or "dash" (streamlit_app.py)
    pc,       \* "startup" before the client is initialised, then "serving"
    youtube,  \* the module global `youtube`: TRUE when a client was built, FALSE for None
    argsort,  \* how the installed numpy orders equal keys in a default (quicksort) argsort
    resp      \* the response of the request being answered; NoResp between requests

vars == <<shell, pc, youtube, argsort, resp>>

\* ------------------------------------------------------------------ bounds
MaxCount == 3      \* a video's viewCount ranges over 0..MaxCount
MaxLike == 1       \* likeCount and commentCount range over 0..MaxLike
MaxItems == 2      \* items in one collaborator response
MaxSubs == 1       \* a channel's subscriberCount ranges over 0..MaxSubs
MaxVideos == 2     \* a channel's videoCount ranges over 0..MaxVideos
MaxViews == 2      \* a channel's viewCount ranges over 0..MaxViews
MaxIds == 2        \* channel ids in one comparison
MaxWords == 2      \* words in the title of one search hit

\* ----------------------------------------------------------- dict helpers
Has(d, k) == k \in DOMAIN d
Get(d, k, default) == IF k \in DOMAIN d THEN d[k] ELSE default

Max2(a, b) == IF a >= b THEN a ELSE b

\* Python round(): nearest, a tie goes to the even neighbour.  n >= 0, d > 0.
RoundHalfEven(n, d) ==
    LET q == n \div d
        r == n % d
    IN  IF 2 * r < d THEN q
        ELSE IF 2 * r > d THEN q + 1
        ELSE IF q % 2 = 0 THEN q ELSE q + 1

\* ------------------------------------------------------- exception values
Ok(v, n) == [exc |-> "none", status |-> 0, value |-> v, calls |-> n]
Raise(cls, st, n) == [exc |-> cls, status |-> st, value |-> <<>>, calls |-> n]

\* What one collaborator call can do besides returning: an HttpError with a
\* status, or an exception that is not an HttpError (transport failure).
CallErrors ==
    { [exc |-> "HttpError", status |-> 403],
      [exc |-> "HttpError", status |-> 404],
      [exc |-> "OSError", status |-> 0] }

\* The network's behaviour during one request: the call numbered `at` raises
\* `err`; at = 0 means every call returns.
NoFailure == [at |-> 0, err |-> [exc |-> "none", status |-> 0]]
Net(ncalls) == {NoFailure} \cup [at : 1..ncalls, err : CallErrors]

\* ------------------------------------------------------------ raw videos
Counts == 0..MaxCount
Likes == 0..MaxLike

\* `statistics` of a video; the platform omits viewCount when it is hidden.
RawStatistics ==
    [viewCount : Counts, likeCount : Likes, commentCount : Likes]
    \cup [likeCount : Likes, commentCount : Likes]

SomeStatistics == [viewCount |-> MaxCount, likeCount |-> MaxLike, commentCount |-> 0]

\* A video resource: well formed, or lacking `statistics`, the title or the id.
RawVideo ==
    [id : {"v"}, snippet : {[title |-> "t", channelTitle |-> "ch"]},
     statistics : RawStatistics]
    \cup { [id |-> "v", snippet |-> [title |-> "t", channelTitle |-> "ch"]],
           [id |-> "v", snippet |-> [channelTitle |-> "ch"], statistics |-> SomeStatistics],
           [snippet |-> [title |-> "t", channelTitle |-> "ch"], statistics |-> SomeStatistics] }

\* ----------------------------------------------------------- raw channels
\* The titles of the channels behind the ids of one request, by position.
ChannelNames == <<"A", "B", "C", "D", "E", "F">>

\* A channel resource: well formed, or lacking videoCount, `statistics` or
\* the title.
RawChannel ==
    [snippet : [title : {"A"}],
     statistics : [subscriberCount : 0..MaxSubs, videoCount : 0..MaxVideos,
                   viewCount : 0..MaxViews]]
    \cup { [snippet |-> [title |-> "A"],
            statistics |-> [subscriberCount |-> MaxSubs, viewCount |-> MaxViews]],
           [snippet |-> [title |-> "A"]],
           [snippet |-> [channelTitle |-> "ch"],
            statistics |-> [subscriberCount |-> MaxSubs, videoCount |-> MaxVideos,
                            viewCount |-> MaxViews]] }

\* What one channels().list call can do: raise, return no items, or return
\* one channel.
ChannelFetch ==
    { [exc |-> e.exc, status |-> e.status, items |-> <<>>] : e \in CallErrors }
    \cup { [exc |-> "none", status |-> 0, items |-> <<>>] }
    \cup { [exc |-> "none", status |-> 0, items |-> <<c>>] : c \in RawChannel }

NotFetched == [exc |-> "none", status |-> 0, items |-> <<>>]

\* The fetch outcome `f` for the channel titled `t`.
Named(f, t) ==
    IF Len(f.items) > 0 /\ Has(f.items[1].snippet, "title")
    THEN [f EXCEPT !.items = << [f.items[1] EXCEPT !.snippet.title = t] >>]
    ELSE f

\* The fetch outcomes of a request for distinct channels.
Distinct(g) == [i \in 1..Len(g) |-> Named(g[i], ChannelNames[i])]

NoResp == [op |-> "none", status |-> 0, msg |-> "none", body |-> <<>>, calls |-> 0,
           req |-> <<>>]

\* ================================================================ app.py
\* What a handler hands to the framework: a returned value (200) or a raised
\* HTTPException(status).  `calls` counts the collaborator calls it issued.
Returned(value, calls) == [status |-> 200, body |-> value, calls |-> calls]
HTTPException(status, calls) == [status |-> status, body |-> <<>>, calls |-> calls]

\* The 503 every handler raises before its try block when the client is None.
Unavailable == HTTPException(503, 0)

\* The except clauses without the one for HttpError: every exception of
\* the try block ends as 500.
ExceptAll(r) ==
    IF r.exc = "none" THEN Returned(r.value, r.calls)
    ELSE HTTPException(500, r.calls)

\* The except clauses that close the try block of search_videos,
\* analyze_video, analyze_channel and get_trending_videos: an HttpError keeps
\* its status; every other exception becomes 500, and an HTTPException
\* raised inside the try block is such an exception.
ExceptHttpError(r) ==
    IF r.exc = "none" THEN Returned(r.value, r.calls)
    ELSE IF r.exc = "HttpError" THEN HTTPException(r.status, r.calls)
    ELSE HTTPException(500, r.calls)

\* The single except clause of compare_channels and get_keyword_suggestions.
ExceptException(r) ==
    IF r.exc = "none" THEN Returned(r.value, r.calls)
    ELSE HTTPException(500, r.calls)

ApiResponse(op, req, out) ==
    [op |-> op, status |-> out.status, msg |-> "none", body |-> out.body,
     calls |-> out.calls, req |-> req]

\* The record search_videos returns while the client is None.
TestVideoInfo ==
    [video_id |-> "test123", title |-> "test title", view_count |-> 10000,
     like_count |-> 500, comment_count |-> 50, engagement_rate |-> 550]

\* engagement_rate cut to 2 decimals instead of rounded.
EngagementRateTruncated(view_count, like_count, comment_count) ==
    IF view_count > 0
    THEN ((like_count + comment_count) * 10000) \div view_count
    ELSE 0

\* engagement_rate of search_videos, in hundredths: round(rate, 2).
EngagementRate(view_count, like_count, comment_count) ==
    IF view_count > 0
    THEN RoundHalfEven((like_count + comment_count) * 10000, view_count)
    ELSE 0

\* One pass of the loop of search_videos over an item of videos_response.
VideoInfo(item) ==
    IF ~Has(item, "statistics") \/ ~Has(item, "snippet") THEN Raise("KeyError", 0, 0)
    ELSE LET stats == item.statistics
             snippet == item.snippet
             view_count == Get(stats, "viewCount", 0)
             like_count == Get(stats, "likeCount", 0)
             comment_count == Get(stats, "commentCount", 0)
         IN  IF ~Has(item, "id") \/ ~Has(snippet, "title") THEN Raise("KeyError", 0, 0)
             ELSE Ok([video_id |-> item.id, title |-> snippet.title,
                      view_count |-> view_count, like_count |-> like_count,
                      comment_count |-> comment_count,
                      engagement_rate |->
                          EngagementRate(view_count, like_count, comment_count)], 0)

\* A for loop that builds a list, given the outcome `rs` of each pass: the
\* first pass that raises ends the loop and the try block around it.
MapItems(rs, calls) ==
    IF \E i \in 1..Len(rs) : rs[i].exc # "none"
    THEN LET k == CHOOSE i \in 1..Len(rs) :
                     /\ rs[i].exc # "none"
                     /\ \A j \in 1..(i - 1) : rs[j].exc = "none"
         IN  Raise(rs[k].exc, rs[k].status, calls)
    ELSE Ok([i \in 1..Len(rs) |-> rs[i].value], calls)

\* The try block of search_videos.  Calls: 1 search().list, 2 videos().list.
search_videos_try(in) ==
    IF in.net.at \in {1, 2} THEN Raise(in.net.err.exc, in.net.err.status, in.net.at)
    ELSE MapItems([i \in 1..Len(in.items) |-> VideoInfo(in.items[i])], 2)

\* GET /search
search_videos(in) ==
    IF ~youtube THEN Returned(<<TestVideoInfo>>, 0)
    ELSE ExceptHttpError(search_videos_try(in))

\* One pass of the loop of get_trending_videos.
TrendingVideo(item) ==
    IF ~Has(item, "statistics") \/ ~Has(item, "snippet") THEN Raise("KeyError", 0, 0)
    ELSE LET stats == item.statistics
             snippet == item.snippet
         IN  IF ~Has(item, "id") \/ ~Has(snippet, "title") THEN Raise("KeyError", 0, 0)
             ELSE Ok([video_id |-> item.id, title |-> snippet.title,
                      view_count |-> Get(stats, "viewCount", 0),
                      like_count |-> Get(stats, "likeCount", 0)], 0)

\* The try block of get_trending_videos.  Calls: 1 videos().list.
get_trending_videos_try(in) ==
    IF in.net.at = 1 THEN Raise(in.net.err.exc, in.net.err.status, 1)
    ELSE LET r == MapItems([i \in 1..Len(in.items) |-> TrendingVideo(in.items[i])], 1)
         IN  IF r.exc # "none" THEN r
             ELSE Ok([total |-> Len(r.value), videos |-> r.value], 1)

\* GET /trending
get_trending_videos(in) ==
    IF ~youtube THEN Unavailable
    ELSE ExceptHttpError(get_trending_videos_try(in))

\* What the commentThreads().list call of analyze_video can do: return `n`
\* comment threads, raise, or return threads that lack a field read by the
\* loop (a KeyError inside the inner try).
CommentOutcomes ==
    { [exc |-> "none", status |-> 0, n |-> k] : k \in 0..1 }
    \cup { [exc |-> e.exc, status |-> e.status, n |-> 0] : e \in CallErrors }
    \cup { [exc |-> "KeyError", status |-> 0, n |-> 1] }

NoComments == [exc |-> "none", status |-> 0, n |-> 0]

\* The inner try/except of analyze_video: a bare except turns every failure
\* into the empty list.
TopComments(c) ==
    IF c.exc = "none"
    THEN [i \in 1..c.n |-> [text |-> "c", likeCount |-> 0]]
    ELSE <<>>

\* engagement_rate of analyze_video, in hundredths.  A viewCount the platform
\* omits is read as 1; the quotient is not guarded.
VideoEngagementRate(stats) ==
    LET view == Get(stats, "viewCount", 1)
        likes == Get(stats, "likeCount", 0) + Get(stats, "commentCount", 0)
    IN  IF view = 0 THEN Raise("ZeroDivisionError", 0, 2)
        ELSE Ok(RoundHalfEven(likes * 10000, view), 2)

\* Calls of analyze_video: 1 videos().list, 2 commentThreads().list.
\* The try block of analyze_video.
analyze_video_try(in) ==
    IF in.net.at = 1 THEN Raise(in.net.err.exc, in.net.err.status, 1)
    ELSE IF Len(in.items) = 0 THEN Raise("HTTPException", 404, 1)
    ELSE LET item == in.items[1]
         IN  IF ~Has(item, "statistics") \/ ~Has(item, "snippet")
             THEN Raise("KeyError", 0, 1)
             ELSE LET stats == item.statistics
                      snippet == item.snippet
                      comments == TopComments(in.comments)
                      rate == VideoEngagementRate(stats)
                  IN  IF ~Has(snippet, "title") THEN Raise("KeyError", 0, 2)
                      ELSE IF rate.exc # "none" THEN rate
                      ELSE Ok([video_info |-> [title |-> snippet.title,
                                               channel |-> snippet.channelTitle],
                               statistics |->
                                   [view_count |-> Get(stats, "viewCount", 0),
                                    like_count |-> Get(stats, "likeCount", 0),
                                    comment_count |-> Get(stats, "commentCount", 0),
                                    engagement_rate |-> rate.value],
                               top_comments |-> comments], 2)

\* GET /video/{video_id}
analyze_video(in) ==
    IF ~youtube THEN Unavailable
    ELSE ExceptHttpError(analyze_video_try(in))

\* The try block of analyze_channel over the outcome `f` of its one
\* channels().list call.  A videoCount the platform omits is read as 1.
analyze_channel_try(f) ==
    IF f.exc # "none" THEN Raise(f.exc, f.status, 1)
    ELSE IF Len(f.items) = 0 THEN Raise("HTTPException", 404, 1)
    ELSE LET item == f.items[1]
         IN  IF ~Has(item, "statistics") \/ ~Has(item, "snippet")
             THEN Raise("KeyError", 0, 1)
             ELSE LET stats == item.statistics
                      snippet == item.snippet
                      view_count == Get(stats, "viewCount", 0)
                      video_count == Get(stats, "videoCount", 1)
                  IN  IF ~Has(snippet, "title") THEN Raise("KeyError", 0, 1)
                      ELSE Ok([title |-> snippet.title,
                               subscriber_count |-> Get(stats, "subscriberCount", 0),
                               video_count |-> video_count,
                               view_count |-> view_count,
                               average_views |->
                                   IF video_count > 0
                                   THEN RoundHalfEven(view_count, video_count)
                                   ELSE 0], 1)

\* GET /channel/{channel_id}
analyze_channel(f) ==
    IF ~youtube THEN Unavailable
    ELSE ExceptHttpError(analyze_channel_try(f))

\* The most channel ids compare_channels accepts.
CompareLimit == 5

RECURSIVE SumOf(_, _, _)
SumOf(df, col, n) == IF n = 0 THEN 0 ELSE df[n][col] + SumOf(df, col, n - 1)

\* int(df[col].mean()): the mean, truncated.
IntMean(df, col) == SumOf(df, col, Len(df)) \div Len(df)

\* Whether row j precedes row i among rows of equal key.  pandas sorts
\* descending by reversing, argsorting with numpy's default kind and
\* reversing again: the scalar argsort (insertion sort below 16 elements)
\* keeps equal keys in input order; the vectorised one gives no such order,
\* and is represented by the opposite order.
TieBefore(j, i) == IF argsort = "scalar" THEN j < i ELSE j > i

\* The ranking with one title per distinct key: the rows that repeat an
\* earlier row's key are dropped before sorting.
SortValuesUniqueKeys(df, col) ==
    LET first == { i \in 1..Len(df) : \A j \in 1..(i - 1) : df[j][col] # df[i][col] }
        Position(i) == 1 + Cardinality({ j \in first : df[j][col] > df[i][col] })
    IN  [p \in 1..Cardinality(first) |->
            df[CHOOSE i \in first : Position(i) = p].title]

\* df.sort_values(col, ascending=False)['title'].tolist()
SortValues(df, col) ==
    LET n == Len(df)
        Position(i) ==
            1 + Cardinality({ j \in 1..n : df[j][col] > df[i][col] })
              + Cardinality({ j \in 1..n : df[j][col] = df[i][col] /\ TieBefore(j, i) })
    IN  [p \in 1..n |-> df[CHOOSE i \in 1..n : Position(i) = p].title]

\* One pass of the growth potential loop over a row with subscribers.
GrowthPotential(channel) ==
    LET avg == channel.average_views
        subs == channel.subscriber_count
    IN  [channel |-> channel.title,
         engagement_score |-> RoundHalfEven(avg * 10000, subs),
         rating |-> IF avg * 100 > 10 * subs THEN "High"
                    ELSE IF avg * 100 > 5 * subs THEN "Medium"
                    ELSE "Low"]

\* The list that scores every row, a row without subscribers as zero.
RECURSIVE GrowthListAll(_, _)
GrowthListAll(df, n) ==
    IF n = 0 THEN <<>>
    ELSE Append(GrowthListAll(df, n - 1),
                IF df[n].subscriber_count > 0 THEN GrowthPotential(df[n])
                ELSE [channel |-> df[n].title, engagement_score |-> 0, rating |-> "Low"])

\* The growth potential loop over the rows of df.
RECURSIVE GrowthList(_, _)
GrowthList(df, n) ==
    IF n = 0 THEN <<>>
    ELSE IF df[n].subscriber_count > 0
    THEN Append(GrowthList(df, n - 1), GrowthPotential(df[n]))
    ELSE GrowthList(df, n - 1)

ComparisonMetrics(df) ==
    [average_metrics |->
         [avg_subscribers |-> IntMean(df, "subscriber_count"),
          avg_videos |-> IntMean(df, "video_count"),
          avg_views |-> IntMean(df, "view_count"),
          avg_views_per_video |-> IntMean(df, "average_views")],
     rankings |->
         [by_subscribers |-> SortValues(df, "subscriber_count"),
          by_total_views |-> SortValues(df, "view_count"),
          by_avg_views |-> SortValues(df, "average_views")],
     growth_potential |-> GrowthList(df, Len(df))]

\* The try block of compare_channels: analyze_channel is called as a plain
\* function, so whatever it raises is an HTTPException raised in this block.
compare_channels_try(fs) ==
    LET outs == [i \in 1..Len(fs) |-> analyze_channel(fs[i])]
    IN  IF \E i \in 1..Len(fs) : outs[i].status # 200
        THEN LET k == CHOOSE i \in 1..Len(fs) :
                         /\ outs[i].status # 200
                         /\ \A j \in 1..(i - 1) : outs[j].status = 200
             IN  Raise("HTTPException", outs[k].status, k)
        ELSE LET df == [i \in 1..Len(fs) |-> outs[i].body]
             IN  Ok([channels |-> df, comparison_metrics |-> ComparisonMetrics(df)],
                    Len(fs))

\* The handler without its limit on the number of ids.
compare_channels_unlimited(fs) ==
    IF ~youtube THEN Unavailable
    ELSE ExceptException(compare_channels_try(fs))

\* POST /compare-channels
compare_channels(fs) ==
    IF ~youtube THEN Unavailable
    ELSE IF Len(fs) > CompareLimit THEN HTTPException(400, 0)
    ELSE ExceptException(compare_channels_try(fs))

\* ----------------------------------------------------- keyword suggestions
\* A title is kept as the sequence of its whitespace-separated words, so
\* split() is the identity on it; lower() works word by word.
TitleWords == {"Pythonic", "with", "Tips", "go"}

Lower(w) ==
    CASE w = "Pythonic" -> "pythonic"
      [] w = "Tips" -> "tips"
      [] OTHER -> w

\* The words get_keyword_suggestions never takes from a title.
StopWords == {"this", "that", "with", "from"}

\* base_keyword.lower() in keyword.lower(), for the words of this model.
ContainsBase(base, keyword) == Lower(keyword) \in {"python", "pythonic"} /\ base = "python"

\* pageInfo.totalResults the platform reports for a keyword.
TotalResults(keyword) ==
    CASE keyword = "pythonic" -> 9
      [] keyword = "tips" -> 7
      [] keyword = "flask" -> 3
      [] OTHER -> 1

\* What the videos().list call for one hit's tags can do: raise, return a
\* video without tags (or no video), or return a video tagged "flask".
TagOutcomes == {"raise", "none", "tags"}

\* The keywords one hit adds: the lowered title words longer than 3 letters
\* that are no stop words, and the first tags when the tag fetch returned.
HitKeywords(hit) ==
    { Lower(hit.title[i]) : i \in { j \in 1..Len(hit.title) :
          Len(Lower(hit.title[j])) > 3 /\ Lower(hit.title[j]) \notin StopWords } }
    \cup (IF hit.tags = "tags" THEN {"flask"} ELSE {})

\* keyword_analysis.sort(key=search_volume, reverse=True) over the analysed
\* keywords; the volumes of distinct keywords differ in this model.
SortByVolume(ks) ==
    LET Position(k) == 1 + Cardinality({ j \in ks : TotalResults(j) > TotalResults(k) })
    IN  [p \in 1..Cardinality(ks) |-> CHOOSE k \in ks : Position(k) = p]

\* The try block of get_keyword_suggestions.  `failing` are the keywords
\* whose count fetch raises.  The keyword set of this model never exceeds
\* the 20 keywords list(keywords)[:20] keeps.  Calls: 1 search().list, one
\* videos().list per hit, one search().list per keyword other than the base
\* keyword.
get_keyword_suggestions_try(in) ==
    IF in.net.at = 1 THEN Raise(in.net.err.exc, in.net.err.status, 1)
    ELSE LET keywords == {in.base} \cup UNION { HitKeywords(in.hits[i]) :
                                                  i \in 1..Len(in.hits) }
             asked == keywords \ {in.base}
             ranked == SortByVolume(asked \ in.failing)
             keyword_analysis ==
                 [p \in 1..Len(ranked) |->
                     [keyword |-> ranked[p],
                      search_volume |-> TotalResults(ranked[p]),
                      relevance |-> IF ContainsBase(in.base, ranked[p])
                                    THEN "High" ELSE "Medium"]]
         IN  Ok([base_keyword |-> in.base,
                 suggestions |-> SubSeq(keyword_analysis, 1,
                                        IF Len(keyword_analysis) < 15
                                        THEN Len(keyword_analysis) ELSE 15),
                 total_found |-> Len(keyword_analysis)],
                1 + Len(in.hits) + Cardinality(asked))

\* GET /keyword-suggestions
get_keyword_suggestions(in) ==
    IF ~youtube THEN Unavailable
    ELSE ExceptException(get_keyword_suggestions_try(in))

\* ====================================================== streamlit_app.py
\* What a dashboard run shows: `msg` is the st.error / st.warning it emitted
\* ("none" when it rendered results), `body` the rows it rendered.
DashResponse(op, req, msg, body, calls) ==
    [op |-> op, status |-> 0, msg |-> msg, body |-> body, calls |-> calls,
     req |-> req]

\* The except clauses that close the dashboard's try blocks.
DashExcept(r) == IF r.exc = "HttpError" THEN "error_api" ELSE "error_unexpected"

\* One pass of the loop of the dashboard's search_videos: every field is read
\* with a default.
VideoRow(item) ==
    LET stats == Get(item, "statistics", [none |-> 0])
        snippet == Get(item, "snippet", [none |-> 0])
        view_count == Get(stats, "viewCount", 0)
        like_count == Get(stats, "likeCount", 0)
        comment_count == Get(stats, "commentCount", 0)
    IN  [title |-> Get(snippet, "title", "title unknown"),
         view_count |-> view_count,
         like_count |-> like_count,
         comment_count |-> comment_count,
         engagement_rate |->
             IF view_count > 0
             THEN RoundHalfEven((like_count + comment_count) * 10000, view_count)
             ELSE 0,
         video_id |-> Get(item, "id", "")]

\* `hits` is the number of items of search_response, `items` the details
\* videos().list returns for them.
\* The dashboard's search_videos(keyword, max_results, order).
st_search_videos(in) ==
    IF ~youtube THEN [msg |-> "error_not_initialized", rows |-> <<>>, calls |-> 0]
    ELSE IF in.net.at \in {1, 2}
    THEN [msg |-> DashExcept(in.net.err), rows |-> <<>>, calls |-> in.net.at]
    ELSE IF in.hits = 0
    THEN [msg |-> "warning_no_results", rows |-> <<>>, calls |-> 1]
    ELSE IF Len(in.items) = 0
    THEN [msg |-> "warning_no_details", rows |-> <<>>, calls |-> 2]
    ELSE [msg |-> "none",
          rows |-> [i \in 1..Len(in.items) |-> VideoRow(in.items[i])],
          calls |-> 2]

\* One pass of the loop of the trend analysis branch.
TrendingRow(item) ==
    LET stats == Get(item, "statistics", [none |-> 0])
        snippet == Get(item, "snippet", [none |-> 0])
    IN  [title |-> Get(snippet, "title", "title unknown"),
         view_count |-> Get(stats, "viewCount", 0),
         like_count |-> Get(stats, "likeCount", 0),
         video_id |-> Get(item, "id", "")]

\* The trend analysis branch, once its button is pressed.
st_trending(in) ==
    IF ~youtube THEN [msg |-> "error_not_initialized", rows |-> <<>>, calls |-> 0]
    ELSE IF in.net.at = 1
    THEN [msg |-> DashExcept(in.net.err), rows |-> <<>>, calls |-> 1]
    ELSE IF Len(in.items) = 0
    THEN [msg |-> "warning_no_trending", rows |-> <<>>, calls |-> 1]
    ELSE [msg |-> "none",
          rows |-> [i \in 1..Len(in.items) |-> TrendingRow(in.items[i])],
          calls |-> 1]

\* What the playlistItems().list call of the dashboard's analyze_channel can
\* do; "absent" when the channel names no uploads playlist and no call is made.
PlaylistOutcomes == {"absent", "ok", "HttpError", "OSError"}

\* The channel analysis branch with a channel id entered: analyze_channel and
\* the metrics drawn from what it returns.  average_views is the displayed
\* quotient view / max(videos, 1).
st_analyze_channel(f, playlist) ==
    IF ~youtube THEN [msg |-> "error_not_initialized", rows |-> <<>>, calls |-> 0]
    ELSE IF f.exc # "none" THEN [msg |-> DashExcept(f), rows |-> <<>>, calls |-> 1]
    ELSE IF Len(f.items) = 0
    THEN [msg |-> "error_channel_not_found", rows |-> <<>>, calls |-> 1]
    ELSE IF playlist = "OSError"
    THEN [msg |-> "error_unexpected", rows |-> <<>>, calls |-> 2]
    ELSE LET item == f.items[1]
             stats == Get(item, "statistics", [none |-> 0])
             snippet == Get(item, "snippet", [none |-> 0])
             videos == Get(stats, "videoCount", 0)
             views == Get(stats, "viewCount", 0)
         IN  [msg |-> IF playlist = "HttpError" THEN "warning_recent_videos" ELSE "none",
              rows |-> << [title |-> Get(snippet, "title", "channel unknown"),
                           subscriber_count |-> Get(stats, "subscriberCount", 0),
                           video_count |-> videos,
                           view_count |-> views,
                           average_views |-> [num |-> views, den |-> Max2(videos, 1)]] >>,
              calls |-> IF playlist = "absent" THEN 1 ELSE 2]

\* One pass of the loop of the competitor analysis branch over a fetched item.
ComparisonRow(item) ==
    LET stats == Get(item, "statistics", [none |-> 0])
        snippet == Get(item, "snippet", [none |-> 0])
        video_count == Max2(Get(stats, "videoCount", 1), 1)
    IN  [title |-> Get(snippet, "title", "channel unknown"),
         subscriber_count |-> Get(stats, "subscriberCount", 0),
         video_count |-> Get(stats, "videoCount", 0),
         view_count |-> Get(stats, "viewCount", 0),
         average_views |-> [num |-> Get(stats, "viewCount", 0), den |-> video_count]]

RECURSIVE ComparisonData(_, _)
ComparisonData(fs, n) ==
    IF n = 0 THEN <<>>
    ELSE IF fs[n].exc = "none" /\ Len(fs[n].items) > 0
    THEN Append(ComparisonData(fs, n - 1), ComparisonRow(fs[n].items[1]))
    ELSE ComparisonData(fs, n - 1)

\* An integer column value as the float the division makes of it.
AsFloat(v) == [num |-> v, den |-> 1]

FracLeq(x, y) == x.num * y.den <= y.num * x.den

\* df[col].max() over a non-empty column of fractions.
ColumnMax(column) ==
    column[CHOOSE m \in 1..Len(column) :
               \A i \in 1..Len(column) : FracLeq(column[i], column[m])]

RECURSIVE ColumnSum(_, _)
ColumnSum(column, n) ==
    IF n = 0 THEN [num |-> 0, den |-> 1]
    ELSE LET rest == ColumnSum(column, n - 1)
         IN  [num |-> rest.num * column[n].den + column[n].num * rest.den,
              den |-> rest.den * column[n].den]

\* The column scaled by its sum instead of its maximum.
NormalizeBySum(column) ==
    LET sum == ColumnSum(column, Len(column))
    IN  IF sum.num > 0
        THEN [i \in 1..Len(column) |->
                 [num |-> column[i].num * sum.den * 100, den |-> column[i].den * sum.num]]
        ELSE column

\* (df[col] / max_val) * 100 when max_val > 0; otherwise the column as it is.
Normalize(column) ==
    LET max_val == ColumnMax(column)
    IN  IF max_val.num > 0
        THEN [i \in 1..Len(column) |->
                 [num |-> column[i].num * max_val.den * 100,
                  den |-> column[i].den * max_val.num]]
        ELSE column

\* df_normalized: the four metric columns of the comparison, each scaled on
\* its own.
RadarNormalized(rows) ==
    LET n == Len(rows)
        subscribers == Normalize([i \in 1..n |-> AsFloat(rows[i].subscriber_count)])
        videos == Normalize([i \in 1..n |-> AsFloat(rows[i].video_count)])
        views == Normalize([i \in 1..n |-> AsFloat(rows[i].view_count)])
        average == Normalize([i \in 1..n |-> rows[i].average_views])
    IN  [i \in 1..n |->
            [title |-> rows[i].title, subscriber_count |-> subscribers[i],
             video_count |-> videos[i], view_count |-> views[i],
             average_views |-> average[i]]]

\* The competitor analysis branch with the button pressed and at least one
\* channel id entered: a fetch that raises is reported by a warning of its
\* own and the loop goes on.
st_compare(fs) ==
    IF ~youtube
    THEN [msg |-> "error_not_initialized", rows |-> <<>>, normalized |-> <<>>,
          warnings |-> {}, calls |-> 0]
    ELSE LET rows == ComparisonData(fs, Len(fs))
         IN  [msg |-> IF Len(rows) > 0 THEN "none" ELSE "error_no_channel_data",
              rows |-> rows,
              normalized |-> IF Len(rows) > 0 THEN RadarNormalized(rows) ELSE <<>>,
              warnings |-> { i \in 1..Len(fs) : fs[i].exc # "none" },
              calls |-> Len(fs)]

\* ------------------------------------------------------- keyword analysis
\* The most keywords the keyword analysis branch shows.
TopKeywords == 20

\* A title of more distinct words than the branch shows.
LongTitle ==
    <<"alpha", "bravo", "charlie", "delta", "echo", "foxtrot", "golf", "hotel",
      "india", "juliet", "kilo", "lima", "mike", "november", "oscar", "papa",
      "quebec", "romeo", "sierra", "tango", "uniform", "victor">>

\* snippet.get('title', '').lower().split() of every item in turn, as one
\* sequence of words.
RECURSIVE TitleTokens(_, _)
TitleTokens(items, n) ==
    IF n = 0 THEN <<>>
    ELSE LET title == Get(Get(items[n], "snippet", [none |-> 0]), "title", <<>>)
         IN  TitleTokens(items, n - 1) \o [i \in 1..Len(title) |-> Lower(title[i])]

\* The dict `keywords` after the loop over `words`, as the sequence of its
\* entries in insertion order: a word longer than 3 characters that is not
\* the base keyword gets its entry when it is first met, and the entry
\* counts the word's occurrences.
CountKeywords(words, base) ==
    LET first == { n \in 1..Len(words) :
                      /\ Len(words[n]) > 3 /\ words[n] # Lower(base)
                      /\ \A m \in 1..(n - 1) : words[m] # words[n] }
        Nth(p) == CHOOSE n \in first : Cardinality({ m \in first : m <= n }) = p
    IN  [p \in 1..Cardinality(first) |->
            [keyword |-> words[Nth(p)],
             count |-> Cardinality({ m \in 1..Len(words) : words[m] = words[Nth(p)] })]]

\* The entries by descending count, entries of equal count in reverse
\* insertion order.
SortedByCountReversed(keywords) ==
    LET n == Len(keywords)
        Position(i) ==
            1 + Cardinality({ j \in 1..n : keywords[j].count > keywords[i].count })
              + Cardinality({ j \in 1..n : keywords[j].count = keywords[i].count /\ j > i })
    IN  [p \in 1..n |-> keywords[CHOOSE i \in 1..n : Position(i) = p]]

\* sorted(keywords.items(), key=count, reverse=True): sorted() is stable,
\* also when reversed.
SortedByCount(keywords) ==
    LET n == Len(keywords)
        Position(i) ==
            1 + Cardinality({ j \in 1..n : keywords[j].count > keywords[i].count })
              + Cardinality({ j \in 1..n : keywords[j].count = keywords[i].count /\ j < i })
    IN  [p \in 1..n |-> keywords[CHOOSE i \in 1..n : Position(i) = p]]

\* The keyword analysis branch with a base keyword entered.  `table` is the
\* dict of counts, `top` what is shown.
st_keyword_analysis(in) ==
    IF ~youtube
    THEN [msg |-> "error_not_initialized", table |-> <<>>, top |-> <<>>, calls |-> 0]
    ELSE IF in.net.at = 1
    THEN [msg |-> DashExcept(in.net.err), table |-> <<>>, top |-> <<>>, calls |-> 1]
    ELSE IF Len(in.items) = 0
    THEN [msg |-> "warning_no_results", table |-> <<>>, top |-> <<>>, calls |-> 1]
    ELSE LET words == TitleTokens(in.items, Len(in.items))
             keywords == CountKeywords(words, in.base)
             sorted == SortedByCount(keywords)
             top_keywords == SubSeq(sorted, 1, IF Len(sorted) < TopKeywords
                                               THEN Len(sorted) ELSE TopKeywords)
         IN  [msg |-> IF Len(top_keywords) > 0 THEN "none" ELSE "warning_no_keywords",
              table |-> keywords, top |-> top_keywords, calls |-> 1]

\* ================================================================ actions
Init ==
    /\ shell \in {"api", "dash"}
    /\ pc = "startup"
    /\ youtube = FALSE
    /\ argsort \in (IF shell = "api" THEN {"scalar", "simd"} ELSE {"scalar"})
    /\ resp = NoResp

\* app.py startup_event -> initialize_youtube_api(): the client is built only
\* when the key is set and build() does not raise.
initialize_youtube_api ==
    /\ shell = "api" /\ pc = "startup"
    /\ \E key \in BOOLEAN, built \in BOOLEAN : youtube' = (key /\ built)
    /\ pc' = "serving"
    /\ UNCHANGED <<shell, argsort, resp>>

\* streamlit_app.py init_youtube_api(), run at module load.
init_youtube_api ==
    /\ shell = "dash" /\ pc = "startup"
    /\ \E key \in BOOLEAN, built \in BOOLEAN : youtube' = (key /\ built)
    /\ pc' = "serving"
    /\ UNCHANGED <<shell, argsort, resp>>

\* The response leaves the process; nothing of the request stays behind.
\* A response after which the client is built anew, which may fail.
DeliverAndReconnect ==
    /\ resp # NoResp
    /\ resp' = NoResp
    /\ \E built \in BOOLEAN : youtube' = built
    /\ UNCHANGED <<shell, pc, argsort>>

Deliver ==
    /\ resp # NoResp
    /\ resp' = NoResp
    /\ UNCHANGED <<shell, pc, youtube, argsort>>

ApiIdle == shell = "api" /\ pc = "serving" /\ resp = NoResp
DashIdle == shell = "dash" /\ pc = "serving" /\ resp = NoResp

RespondSearch(in) == resp' = ApiResponse("search", in, search_videos(in))
RespondTrending(in) == resp' = ApiResponse("trending", in, get_trending_videos(in))
RespondVideo(in) == resp' = ApiResponse("video", in, analyze_video(in))

\* A list request meets a failing call (nothing is read), or every call
\* returns and the last one carries the items.  With no client no call is
\* made, and the only input offered is the empty one.
SearchVideos ==
    /\ ApiIdle
    /\ \/ \E n \in Net(2) \ {NoFailure} :
             youtube /\ RespondSearch([items |-> <<>>, net |-> n])
       \/ \E k \in 0..MaxItems : \E s \in [1..k -> RawVideo] :
             (youtube \/ k = 0) /\ RespondSearch([items |-> s, net |-> NoFailure])
    /\ UNCHANGED <<shell, pc, youtube, argsort>>

TrendingVideos ==
    /\ ApiIdle
    /\ \/ \E n \in Net(1) \ {NoFailure} :
             youtube /\ RespondTrending([items |-> <<>>, net |-> n])
       \/ \E k \in 0..MaxItems : \E s \in [1..k -> RawVideo] :
             (youtube \/ k = 0) /\ RespondTrending([items |-> s, net |-> NoFailure])
    /\ UNCHANGED <<shell, pc, youtube, argsort>>

\* The lookup fails, finds nothing, or finds one video; the comment call
\* is reached only in the last case.
AnalyzeVideo ==
    /\ ApiIdle
    /\ \/ \E n \in Net(1) :
             /\ youtube \/ n = NoFailure
             /\ RespondVideo([items |-> <<>>, net |-> n, comments |-> NoComments])
       \/ \E v \in RawVideo, c \in CommentOutcomes :
             /\ youtube
             /\ RespondVideo([items |-> <<v>>, net |-> NoFailure, comments |-> c])
    /\ UNCHANGED <<shell, pc, youtube, argsort>>

RespondStSearch(in) ==
    LET df == st_search_videos(in)
    IN  resp' = DashResponse("search", in, df.msg, df.rows, df.calls)

\* The video search branch: the button is pressed with or without a keyword.
StSearchVideos ==
    /\ DashIdle
    /\ \/ resp' = DashResponse("search", [keyword |-> ""], "warning_no_keyword", <<>>, 0)
       \/ \E n \in Net(2) \ {NoFailure} :
             youtube /\ RespondStSearch([hits |-> 0, items |-> <<>>, net |-> n])
       \/ \E h \in 0..MaxItems : \E k \in 0..h : \E s \in [1..k -> RawVideo] :
             /\ youtube \/ h = 0
             /\ RespondStSearch([hits |-> h, items |-> s, net |-> NoFailure])
    /\ UNCHANGED <<shell, pc, youtube, argsort>>

RespondStTrending(in) ==
    LET out == st_trending(in)
    IN  resp' = DashResponse("trending", in, out.msg, out.rows, out.calls)

StTrending ==
    /\ DashIdle
    /\ \/ \E n \in Net(1) \ {NoFailure} :
             youtube /\ RespondStTrending([items |-> <<>>, net |-> n])
       \/ \E k \in 0..MaxItems : \E s \in [1..k -> RawVideo] :
             (youtube \/ k = 0) /\ RespondStTrending([items |-> s, net |-> NoFailure])
    /\ UNCHANGED <<shell, pc, youtube, argsort>>

RespondChannel(f) == resp' = ApiResponse("channel", [fs |-> <<f>>], analyze_channel(f))

AnalyzeChannel ==
    /\ ApiIdle
    /\ \E f \in ChannelFetch :
          /\ youtube \/ f = NotFetched
          /\ RespondChannel(f)
    /\ UNCHANGED <<shell, pc, youtube, argsort>>

RespondCompare(fs) ==
    resp' = ApiResponse("compare-channels", [fs |-> fs], compare_channels(fs))

\* POST /compare-channels with 1..MaxIds ids of distinct channels, with one
\* id given several times, or with one id more than the handler accepts.
CompareChannels ==
    /\ ApiIdle
    /\ \/ \E k \in 1..MaxIds : \E g \in [1..k -> ChannelFetch] :
             /\ youtube \/ \A i \in 1..k : g[i] = NotFetched
             /\ RespondCompare(Distinct(g))
       \/ \E k \in 2..MaxIds : \E f \in ChannelFetch :
             /\ youtube /\ Len(f.items) > 0
             /\ RespondCompare([i \in 1..k |-> f])
       \/ RespondCompare([i \in 1..(CompareLimit + 1) |-> NotFetched])
    /\ UNCHANGED <<shell, pc, youtube, argsort>>

\* Channels with counts of the size the platform reports: the three of the
\* worked examples, and two whose views per subscriber lie just above a
\* rating threshold (51 / 1019 and 201 / 2009).
KnownChannel ==
    { [snippet |-> [title |-> "A"],
       statistics |-> [subscriberCount |-> st[1], videoCount |-> st[2],
                       viewCount |-> st[3]]] :
        st \in { <<1000, 10, 100000>>, <<100, 10, 1000>>, <<200, 10, 6000>>,
                 <<1019, 1, 51>>, <<2009, 1, 201>> } }

\* POST /compare-channels with 1..CompareLimit ids of such channels, every
\* fetch returning its channel.
CompareKnownChannels ==
    /\ ApiIdle /\ youtube
    /\ \E k \in 1..CompareLimit : \E g \in [1..k -> KnownChannel] :
          RespondCompare(Distinct([i \in 1..k |->
              [exc |-> "none", status |-> 0, items |-> <<g[i]>>]]))
    /\ UNCHANGED <<shell, pc, youtube, argsort>>

\* The same comparison is requested again and meets the same collaborator
\* answers; the first report is kept beside the second.
RepeatCompare ==
    /\ shell = "api" /\ pc = "serving"
    /\ resp.op = "compare-channels" /\ resp.status = 200
    /\ resp' = ApiResponse("compare-channels-again",
                            [fs |-> resp.req.fs, first |-> resp.body],
                            compare_channels(resp.req.fs))
    /\ UNCHANGED <<shell, pc, youtube, argsort>>

\* The channel analysis branch: the button is pressed with or without an id.
StAnalyzeChannel ==
    /\ DashIdle
    /\ \/ resp' = DashResponse("channel", [channel_id |-> ""], "warning_no_channel_id",
                                <<>>, 0)
       \/ \E f \in ChannelFetch, pl \in PlaylistOutcomes :
             /\ youtube \/ (f = NotFetched /\ pl = "absent")
             /\ (f.exc # "none" \/ Len(f.items) = 0) => pl = "absent"
             /\ LET out == st_analyze_channel(f, pl)
                IN  resp' = DashResponse("channel", [fs |-> <<f>>, playlist |-> pl],
                                         out.msg, out.rows, out.calls)
    /\ UNCHANGED <<shell, pc, youtube, argsort>>

\* The competitor analysis branch: with no id entered the button does
\* nothing; otherwise every id entered is fetched in turn.
StCompare ==
    /\ DashIdle
    /\ \/ resp' = DashResponse("compare", [fs |-> <<>>], "none",
                                [rows |-> <<>>, normalized |-> <<>>, warnings |-> {}], 0)
       \/ \E k \in 1..MaxIds : \E g \in [1..k -> ChannelFetch] :
             /\ youtube \/ \A i \in 1..k : g[i] = NotFetched
             /\ LET fs == Distinct(g)
                    out == st_compare(fs)
                IN  resp' = DashResponse("compare", [fs |-> fs], out.msg,
                                         [rows |-> out.rows, normalized |-> out.normalized,
                                          warnings |-> out.warnings],
                                         out.calls)
    /\ UNCHANGED <<shell, pc, youtube, argsort>>

\* The text inputs of the competitor analysis branch.
ChannelInputs == 5

\* What the fetch of an id entered there returns: one of two channels of
\* the worked examples, or no channel.
KnownFetch ==
    { [exc |-> "none", status |-> 0, items |-> <<c>>] :
          c \in { k \in KnownChannel : k.statistics.subscriberCount \in {100, 1000} } }
    \cup {NotFetched}

\* The competitor analysis branch with up to ChannelInputs ids entered;
\* with none entered the button does nothing.
StCompareKnownChannels ==
    /\ DashIdle
    /\ \E k \in 0..ChannelInputs : \E g \in [1..k -> KnownFetch] :
          /\ youtube \/ \A i \in 1..k : g[i] = NotFetched
          /\ LET fs == Distinct(g)
                 out == IF k = 0
                        THEN [msg |-> "none", rows |-> <<>>, normalized |-> <<>>,
                              warnings |-> {}, calls |-> 0]
                        ELSE st_compare(fs)
             IN  resp' = DashResponse("compare", [fs |-> fs], out.msg,
                                      [rows |-> out.rows, normalized |-> out.normalized,
                                       warnings |-> out.warnings],
                                      out.calls)
    /\ UNCHANGED <<shell, pc, youtube, argsort>>

RespondKeywords(in) ==
    resp' = ApiResponse("keyword-suggestions", in, get_keyword_suggestions(in))

\* GET /keyword-suggestions: the search fails, or returns up to MaxItems
\* hits; each hit's tag fetch and each keyword's count fetch may fail.
KeywordSuggestions ==
    /\ ApiIdle
    /\ \/ \E n \in Net(1) \ {NoFailure} :
             /\ youtube
             /\ RespondKeywords([base |-> "python", hits |-> <<>>, net |-> n,
                                 failing |-> {}])
       \/ \E k \in 0..MaxItems :
             \E hits \in [1..k -> [title : UNION { [1..w -> TitleWords] : w \in 0..MaxWords },
                                   tags : TagOutcomes]] :
                \E failing \in SUBSET (UNION { HitKeywords(hits[i]) : i \in 1..k }) :
                   /\ youtube \/ k = 0
                   /\ RespondKeywords([base |-> "python", hits |-> hits,
                                       net |-> NoFailure, failing |-> failing])
    /\ UNCHANGED <<shell, pc, youtube, argsort>>

RespondStKeywords(in) ==
    LET out == st_keyword_analysis(in)
    IN  resp' = DashResponse("keywords", in, out.msg,
                             [table |-> out.table, top |-> out.top], out.calls)

\* The words of the short titles: a stop word, a capitalised word and a word
\* of 2 letters.
StTitleWords == {"with", "Tips", "go"}

\* A search hit of the keyword analysis: a title of up to MaxWords words, or
\* an item without title.
KeywordHit ==
    { [snippet |-> [title |-> t]] :
          t \in UNION { [1..w -> StTitleWords] : w \in 0..MaxWords } }
    \cup { [snippet |-> [channelTitle |-> "ch"]] }

\* The keyword analysis branch: the button is pressed with or without a base
\* keyword (one that no title holds, or for a single hit one that titles
\* hold); the search fails, or returns short titles, or returns the long
\* title and a part of it again.
StKeywordAnalysis ==
    /\ DashIdle
    /\ \/ resp' = DashResponse("keywords", [base |-> ""], "warning_no_base_keyword",
                                [table |-> <<>>, top |-> <<>>], 0)
       \/ \E n \in Net(1) \ {NoFailure} :
             youtube /\ RespondStKeywords([base |-> "python", items |-> <<>>, net |-> n])
       \/ \E base \in {"python", "Tips"} : \E k \in 0..MaxItems :
             /\ base = "python" \/ k = 1
             /\ youtube \/ (k = 0 /\ base = "python")
             /\ \E s \in [1..k -> KeywordHit] :
                   RespondStKeywords([base |-> base, items |-> s, net |-> NoFailure])
       \/ \E a \in 1..Len(LongTitle) : \E b \in a..Len(LongTitle) :
             /\ youtube
             /\ RespondStKeywords(
                    [base |-> "python",
                     items |-> << [snippet |-> [title |-> LongTitle]],
                                  [snippet |-> [title |-> SubSeq(LongTitle, a, b)]] >>,
                     net |-> NoFailure])
    /\ UNCHANGED <<shell, pc, youtube, argsort>>

NextVideos ==
    \/ initialize_youtube_api
    \/ init_youtube_api
    \/ SearchVideos
    \/ TrendingVideos
    \/ AnalyzeVideo
    \/ StSearchVideos
    \/ StTrending
    \/ Deliver

SpecVideos == Init /\ [][NextVideos]_vars

NextChannels ==
    \/ initialize_youtube_api
    \/ init_youtube_api
    \/ AnalyzeChannel
    \/ CompareChannels
    \/ CompareKnownChannels
    \/ RepeatCompare
    \/ StAnalyzeChannel
    \/ StCompare
    \/ Deliver

SpecChannels == Init /\ [][NextChannels]_vars

\* The API's comparison alone.
NextCompare ==
    \/ initialize_youtube_api
    \/ CompareChannels
    \/ CompareKnownChannels
    \/ RepeatCompare
    \/ Deliver

\* The process runs app.py.
InitCompare == Init /\ shell = "api"

SpecCompare == InitCompare /\ [][NextCompare]_vars

\* The process runs streamlit_app.py.
InitDash == Init /\ shell = "dash"

\* The dashboard's competitor analysis alone.
NextRadar ==
    \/ init_youtube_api
    \/ StCompare
    \/ Deliver

SpecRadar == InitDash /\ [][NextRadar]_vars

\* The four operations of the API that answer a collaborator's HTTP error
\* with its status.
NextErrors ==
    \/ initialize_youtube_api
    \/ SearchVideos
    \/ TrendingVideos
    \/ AnalyzeVideo
    \/ AnalyzeChannel
    \/ Deliver

SpecErrors == InitCompare /\ [][NextErrors]_vars

\* The comparisons of both shells.
NextAggregate ==
    \/ initialize_youtube_api
    \/ init_youtube_api
    \/ CompareChannels
    \/ CompareKnownChannels
    \/ StCompareKnownChannels
    \/ Deliver

SpecAggregate == Init /\ [][NextAggregate]_vars

\* The dashboard's keyword analysis alone.
NextKeywords ==
    \/ init_youtube_api
    \/ StKeywordAnalysis
    \/ Deliver

SpecKeywords == InitDash /\ [][NextKeywords]_vars

\* Every operation of both programs.
Next ==
    \/ initialize_youtube_api
    \/ init_youtube_api
    \/ SearchVideos
    \/ TrendingVideos
    \/ AnalyzeVideo
    \/ AnalyzeChannel
    \/ CompareChannels
    \/ CompareKnownChannels
    \/ RepeatCompare
    \/ KeywordSuggestions
    \/ StSearchVideos
    \/ StTrending
    \/ StAnalyzeChannel
    \/ StCompare
    \/ StCompareKnownChannels
    \/ StKeywordAnalysis
    \/ Deliver

Spec == Init /\ [][Next]_vars

\* ================================================================= claims
\* A request answered by the API having issued at least one collaborator call.
ApiCalled(op) == shell = "api" /\ resp.op = op /\ resp.calls > 0
DashCalled(op) == shell = "dash" /\ resp.op = op /\ resp.calls > 0

\* C1: a single-entity lookup of the API (analyze_video, analyze_channel)
\* whose collaborator call returns an empty item list ends with status 404,
\* not with the 500 of an unexpected exception.
C1_NotFoundIs404 ==
    /\ (ApiCalled("video") /\ resp.req.net = NoFailure /\ Len(resp.req.items) = 0)
           => resp.status = 404
    /\ (ApiCalled("channel") /\ resp.req.fs[1] = NotFetched)
           => resp.status = 404

\* C2: an API operation requested while the client is None fails with 503,
\* issues no collaborator call and returns no data.
C2_UnavailableIs503 ==
    (shell = "api" /\ pc = "serving" /\ ~youtube /\ resp # NoResp)
        => (resp.status = 503 /\ resp.calls = 0 /\ resp.body = <<>>)

\* A fetch that returned a channel carrying every field the handlers read.
Fetched(f) ==
    /\ f.exc = "none" /\ Len(f.items) = 1
    /\ Has(f.items[1], "statistics") /\ Has(f.items[1].snippet, "title")

\* Exactly one fetch of the comparison failed (it raised or returned no
\* items) and every other fetch returned a channel.
OneFetchFailed(fs) ==
    /\ Len(fs) >= 2
    /\ \E k \in 1..Len(fs) :
          /\ fs[k].exc # "none" \/ Len(fs[k].items) = 0
          /\ \A i \in 1..Len(fs) : i # k => Fetched(fs[i])

\* C3: a comparison in which one channel's fetch fails and the others
\* succeed still completes, with a report over the remaining channels, in the
\* API's compare-channels and in the dashboard's competitor analysis.
C3_OneFailureAbsorbed ==
    /\ (ApiCalled("compare-channels") /\ OneFetchFailed(resp.req.fs))
           => /\ resp.status = 200
              /\ Len(resp.body.channels) = Len(resp.req.fs) - 1
    /\ (DashCalled("compare") /\ OneFetchFailed(resp.req.fs))
           => /\ resp.msg = "none"
              /\ Len(resp.body.rows) = Len(resp.req.fs) - 1

\* A video that carries every field analyze_video reads.
WellFormedVideo(item) ==
    Has(item, "statistics") /\ Has(item, "snippet") /\ Has(item.snippet, "title")

\* The keywords a keyword-suggestions response lists.
Suggested == { resp.body.suggestions[i].keyword : i \in 1..Len(resp.body.suggestions) }

\* The keywords of the hits whose tag fetch did not fail, without the base.
Gathered(in) ==
    UNION { HitKeywords(in.hits[i]) : i \in 1..Len(in.hits) } \ {in.base}

\* C4: in analyze_video, when the lookup returned the video and the comment
\* call failed, the request succeeds and top_comments is the empty list; in
\* keyword-suggestions, when the search succeeded, the request succeeds and
\* lists every gathered keyword but those whose count fetch failed.
C4_CommentFailureAbsorbed ==
    /\ (/\ ApiCalled("video") /\ Len(resp.req.items) = 1
        /\ WellFormedVideo(resp.req.items[1])
        /\ resp.req.comments.exc # "none")
           => (resp.status = 200 /\ resp.body.top_comments = <<>>)
    /\ (ApiCalled("keyword-suggestions") /\ resp.req.net = NoFailure)
           => /\ resp.status = 200
              /\ Suggested = Gathered(resp.req) \ resp.req.failing

\* The collaborator answered every call of a batch operation with a
\* non-empty list of items.
BatchRead(op) ==
    /\ resp.op = op /\ resp.calls > 0
    /\ resp.req.net = NoFailure /\ Len(resp.req.items) > 0

\* The request ended in a result, not in an error.
Succeeded == IF shell = "api" THEN resp.status = 200 ELSE resp.msg = "none"

\* The video records a batch operation put out.
Records ==
    IF shell = "api" /\ resp.op = "trending" /\ resp.status = 200
    THEN resp.body.videos
    ELSE resp.body

HasIdentity(item) == Has(item, "id") /\ Has(item.snippet, "title")

\* C5: in search and trending, in both shells, a batch in which some record
\* lacks its id or title puts out exactly the records that have both, and no
\* record put out carries a placeholder id or title.  (Stated for the batches
\* in which every record has statistics.)
C5_InvalidRecordExcluded ==
    \A op \in {"search", "trending"} :
        (/\ BatchRead(op)
         /\ \A i \in 1..Len(resp.req.items) : Has(resp.req.items[i], "statistics")
         /\ \E i \in 1..Len(resp.req.items) : ~HasIdentity(resp.req.items[i]))
            => /\ Succeeded
               /\ Len(Records) = Cardinality({ i \in 1..Len(resp.req.items) :
                                                  HasIdentity(resp.req.items[i]) })
               /\ \A j \in 1..Len(Records) :
                     Records[j].title # "title unknown" /\ Records[j].video_id # ""

\* C6: in search and trending, in both shells, a record without `statistics`
\* is put out with every count 0 (and engagement rate 0 in search) and the
\* request raises no error.  (Stated for the batches in which every record
\* has its id and title.)
C6_MissingStatisticsIsZero ==
    \A op \in {"search", "trending"} :
        (/\ BatchRead(op)
         /\ \A i \in 1..Len(resp.req.items) : HasIdentity(resp.req.items[i])
         /\ \E i \in 1..Len(resp.req.items) : ~Has(resp.req.items[i], "statistics"))
            => /\ Succeeded
               /\ Len(Records) = Len(resp.req.items)
               /\ \A i \in 1..Len(Records) :
                     ~Has(resp.req.items[i], "statistics")
                         => /\ Records[i].view_count = 0
                            /\ Records[i].like_count = 0
                            /\ op = "search" =>
                                  /\ Records[i].comment_count = 0
                                  /\ Records[i].engagement_rate = 0

\* e hundredths is ((l + c) / v) * 100 rounded to 2 decimals: the nearest
\* hundredth, the even one of two equally near; 0 when v = 0.
RateIsRounded(e, v, l, c) ==
    IF v > 0
    THEN LET d == e * v - 10000 * (l + c)
         IN  /\ 2 * d <= v /\ -2 * d <= v
             /\ (2 * d = v \/ -2 * d = v) => e % 2 = 0
    ELSE e = 0

\* A count of a raw record under the parsing policy: 0 when it is missing.
RawCount(item, k) == Get(Get(item, "statistics", [none |-> 0]), k, 0)

\* C7: every record a search returns, in the API and in the dashboard,
\* carries the counts of the raw record it was made from and the engagement
\* rate round(((likes + comments) / views) * 100, 2), or 0 when views = 0.
\* The rate is thereby a function of the raw record alone, the same in both
\* shells.
C7_EngagementRateFormula ==
    (resp.op = "search" /\ Succeeded)
        => \A i \in 1..Len(resp.body) :
              LET r == resp.body[i]
              IN  /\ RateIsRounded(r.engagement_rate, r.view_count, r.like_count,
                                   r.comment_count)
                  /\ resp.calls > 0
                        => /\ r.view_count = RawCount(resp.req.items[i], "viewCount")
                           /\ r.like_count = RawCount(resp.req.items[i], "likeCount")
                           /\ r.comment_count = RawCount(resp.req.items[i], "commentCount")

\* A search of the API returned a record whose rate is not a whole number of
\* hundredths before rounding: 2 interactions over 3 views, 66.67.
C7_Witness ==
    /\ shell = "api" /\ resp.op = "search" /\ resp.status = 200 /\ resp.calls = 2
    /\ \E i \in 1..Len(resp.body) :
          /\ resp.body[i].view_count = 3
          /\ resp.body[i].like_count + resp.body[i].comment_count = 2
          /\ resp.body[i].engagement_rate = 6667

\* C8: analyze_video of a video whose statistics report viewCount = 0
\* succeeds with engagement_rate = 0.
C8_ZeroViewsIsZeroRate ==
    (/\ ApiCalled("video") /\ Len(resp.req.items) = 1
     /\ WellFormedVideo(resp.req.items[1])
     /\ Has(resp.req.items[1].statistics, "viewCount")
     /\ resp.req.items[1].statistics.viewCount = 0)
        => (resp.status = 200 /\ resp.body.statistics.engagement_rate = 0)

\* num / den is views / videos when videos > 0, and 0 when videos = 0.
AverageIsQuotient(num, den, views, videos) ==
    IF videos > 0 THEN num * videos = views * den ELSE num = 0

\* C9: the average views of every channel record, in analyze_channel of the
\* API and in the dashboard's channel analysis and competitor analysis, is
\* viewCount / videoCount when videoCount > 0 and 0 when videoCount = 0.
C9_AverageViews ==
    /\ (ApiCalled("channel") /\ resp.status = 200)
           => AverageIsQuotient(resp.body.average_views, 1,
                                resp.body.view_count, resp.body.video_count)
    /\ (DashCalled("channel") \/ DashCalled("compare"))
           => LET rows == IF resp.op = "channel" THEN resp.body ELSE resp.body.rows
              IN  \A i \in 1..Len(rows) :
                     AverageIsQuotient(rows[i].average_views.num,
                                       rows[i].average_views.den,
                                       rows[i].view_count, rows[i].video_count)

Occurrences(seq, t) == Cardinality({ i \in 1..Len(seq) : seq[i] = t })

\* a is a rearrangement of b, counting repeated titles.
IsPermutation(a, b) ==
    /\ Len(a) = Len(b)
    /\ \A i \in 1..Len(a) : Occurrences(a, a[i]) = Occurrences(b, a[i])

\* The titles of the channels the collaborator returned, in request order.
InputTitles(fs) == [i \in 1..Len(fs) |-> fs[i].items[1].snippet.title]

RowOf(channels, t) == CHOOSE i \in 1..Len(channels) : channels[i].title = t

TitlesDistinct(channels) ==
    \A i, j \in 1..Len(channels) : channels[i].title = channels[j].title => i = j

\* `ranking` lists the rows of `channels` by non-increasing `col`, rows of
\* equal `col` in input order.
StableDescending(ranking, channels, col) ==
    \A p, q \in 1..Len(ranking) :
        p < q =>
            LET i == RowOf(channels, ranking[p])
                j == RowOf(channels, ranking[q])
            IN  /\ channels[i][col] >= channels[j][col]
                /\ channels[i][col] = channels[j][col] => i < j

WithSubscribers(channels) ==
    { i \in 1..Len(channels) : channels[i].subscriber_count > 0 }

NthWithSubscribers(channels, p) ==
    CHOOSE i \in WithSubscribers(channels) :
        Cardinality({ j \in WithSubscribers(channels) : j <= i }) = p

\* C12: the growth potential list of a comparison has exactly one entry, in
\* input order, for each channel with subscriberCount > 0, and none for a
\* channel with subscriberCount = 0.
C12_GrowthListSkipsZero ==
    (/\ shell = "api" /\ resp.status = 200
     /\ resp.op \in {"compare-channels", "compare-channels-again"})
        => LET channels == resp.body.channels
               growth == resp.body.comparison_metrics.growth_potential
           IN  /\ Len(growth) = Cardinality(WithSubscribers(channels))
               /\ \A p \in 1..Len(growth) :
                     growth[p].channel = channels[NthWithSubscribers(channels, p)].title

\* A comparison of a channel without subscribers and a channel with
\* subscribers lists the second alone.
C12_Witness ==
    /\ shell = "api" /\ resp.op = "compare-channels" /\ resp.status = 200
    /\ Len(resp.body.channels) = 2
    /\ resp.body.channels[1].subscriber_count = 0
    /\ resp.body.channels[2].subscriber_count > 0
    /\ Len(resp.body.comparison_metrics.growth_potential) = 1
    /\ resp.body.comparison_metrics.growth_potential[1].channel = "B"

\* The rating the reported score (in hundredths) determines.
RatingOf(score) ==
    IF score > 1000 THEN "High" ELSE IF score > 500 THEN "Medium" ELSE "Low"

\* C13: every growth potential entry reports the score
\* round((averageViews / subscriberCount) * 100, 2) of its channel, and the
\* rating that this reported score determines: High above 10, Medium above
\* 5, otherwise Low.
C13_ScoreAndRating ==
    (shell = "api" /\ resp.op = "compare-channels" /\ resp.status = 200)
        => LET channels == resp.body.channels
               growth == resp.body.comparison_metrics.growth_potential
           IN  \A p \in 1..Len(growth) :
                  LET c == channels[NthWithSubscribers(channels, p)]
                  IN  /\ growth[p].engagement_score =
                             RoundHalfEven(c.average_views * 10000, c.subscriber_count)
                      /\ growth[p].rating = RatingOf(growth[p].engagement_score)

\* The four metric columns of the radar chart.
RadarColumns == {"subscriber_count", "video_count", "view_count", "average_views"}

\* The raw value of a row in a column, as a fraction.
RawValue(row, col) == IF col = "average_views" THEN row[col] ELSE AsFloat(row[col])

\* C14: in the radar normalization of a non-empty comparison, each column
\* on its own: when the raw maximum is > 0 every normalized value lies in
\* [0, 100] and some value is exactly 100; when the raw maximum is 0 every
\* normalized value is 0.
C14_RadarNormalization ==
    (DashCalled("compare") /\ Len(resp.body.rows) > 0)
        => LET rows == resp.body.rows
               norm == resp.body.normalized
           IN  /\ Len(norm) = Len(rows)
               /\ \A col \in RadarColumns :
                     IF \E i \in 1..Len(rows) : RawValue(rows[i], col).num > 0
                     THEN /\ \A i \in 1..Len(norm) :
                                /\ norm[i][col].den > 0 /\ norm[i][col].num >= 0
                                /\ norm[i][col].num <= 100 * norm[i][col].den
                          /\ \E i \in 1..Len(norm) :
                                norm[i][col].num = 100 * norm[i][col].den
                     ELSE \A i \in 1..Len(norm) : norm[i][col].num = 0

\* A comparison of two channels without subscribers of which the second has
\* twice the views of the first: the subscriber column stays 0, the view
\* column becomes 50 and 100.
C14_Witness ==
    /\ DashCalled("compare") /\ Len(resp.body.rows) = 2
    /\ \A i \in 1..2 : resp.body.rows[i].subscriber_count = 0
    /\ resp.body.rows[1].view_count = 1 /\ resp.body.rows[2].view_count = 2
    /\ resp.body.normalized[1].view_count = [num |-> 100, den |-> 2]
    /\ resp.body.normalized[2].view_count = [num |-> 200, den |-> 2]

\* m is the mean of column col rounded to the nearest integer (either
\* neighbour when the mean lies halfway).
IsNearestMean(m, channels, col) ==
    LET n == Len(channels)
        d == 2 * (m * n - SumOf(channels, col, n))
    IN  d <= n /\ -d <= n

\* C15: each of the four average metrics of a comparison is the arithmetic
\* mean of its field over the channels, rounded to the nearest integer.
C15_AveragesAreRoundedMeans ==
    (shell = "api" /\ resp.op = "compare-channels" /\ resp.status = 200)
        => LET channels == resp.body.channels
               avg == resp.body.comparison_metrics.average_metrics
           IN  /\ IsNearestMean(avg.avg_subscribers, channels, "subscriber_count")
               /\ IsNearestMean(avg.avg_videos, channels, "video_count")
               /\ IsNearestMean(avg.avg_views, channels, "view_count")
               /\ IsNearestMean(avg.avg_views_per_video, channels, "average_views")

\* The keyword analysis searched and found items.
KeywordsCounted ==
    /\ DashCalled("keywords") /\ resp.req.net = NoFailure /\ Len(resp.req.items) > 0

\* The case-folded title tokens of the request, in scan order.
ScannedTokens == TitleTokens(resp.req.items, Len(resp.req.items))

\* C16: the frequency table holds exactly the case-folded title tokens that
\* are longer than 3 characters and no stop words, each with the number of
\* its occurrences; no shorter token and no stop word is in the table.
C16_FrequencyTable ==
    KeywordsCounted
        => LET words == ScannedTokens
               table == resp.body.table
               Eligible(w) == Len(w) > 3 /\ w \notin StopWords
           IN  /\ \A i \in 1..Len(table) :
                     /\ Eligible(table[i].keyword)
                     /\ table[i].count = Occurrences(words, table[i].keyword)
               /\ \A n \in 1..Len(words) :
                     Eligible(words[n])
                         => \E i \in 1..Len(table) : table[i].keyword = words[n]

\* Where the scan of titles first meets the token w.
FirstSeen(words, w) ==
    CHOOSE n \in 1..Len(words) :
        words[n] = w /\ \A m \in 1..(n - 1) : words[m] # w

\* C17: the keyword result has at most 20 entries, all the table's entries
\* when those are fewer; it is ordered by non-increasing count, tokens of
\* equal count in first-seen order; and no token left out has a higher
\* count than one that is shown.
C17_TopKeywordsOrdered ==
    KeywordsCounted
        => LET words == ScannedTokens
               table == resp.body.table
               top == resp.body.top
               shown == { top[p].keyword : p \in 1..Len(top) }
           IN  /\ Len(top) <= 20
               /\ Len(top) = 20 \/ Len(top) = Len(table)
               /\ \A p \in 1..Len(top) : \E i \in 1..Len(table) : table[i] = top[p]
               /\ \A p, q \in 1..Len(top) :
                     p < q =>
                        /\ top[p].count >= top[q].count
                        /\ top[p].count = top[q].count
                              => FirstSeen(words, top[p].keyword)
                                    < FirstSeen(words, top[q].keyword)
               /\ \A i \in 1..Len(table) :
                     table[i].keyword \notin shown
                         => \A p \in 1..Len(top) : top[p].count >= table[i].count

\* Of 22 counted tokens the 20 shown begin with the two that occur twice,
\* which the scan met last, and leave out two that occur once.
C17_Witness ==
    /\ KeywordsCounted
    /\ Len(resp.body.table) = 22 /\ Len(resp.body.top) = 20
    /\ resp.body.top[1] = [keyword |-> "uniform", count |-> 2]
    /\ resp.body.top[2] = [keyword |-> "victor", count |-> 2]
    /\ resp.body.top[3] = [keyword |-> "alpha", count |-> 1]
    /\ resp.body.top[20] = [keyword |-> "romeo", count |-> 1]

\* A comparison of the API, and whether it aggregated: the report is built
\* from the frame of the channels it returns.
Compared == shell = "api" /\ resp.op = "compare-channels"
ApiAggregated == Compared /\ resp.status = 200

\* A competitor analysis of the dashboard, and whether it aggregated: the
\* frame is built from the rows, and the chart from the frame.
DashCompared == shell = "dash" /\ resp.op = "compare"
DashAggregated == DashCompared /\ Len(resp.body.normalized) > 0

\* C18 as stated: aggregation runs on 1 to 5 channels only; the API
\* rejects a comparison of more than 5 ids with 400 before any collaborator
\* call; the dashboard aggregates no empty list and none of more than 5.
C18_AsStated ==
    /\ ApiAggregated => Len(resp.body.channels) \in 1..5
    /\ (Compared /\ Len(resp.req.fs) > 5) => (resp.status = 400 /\ resp.calls = 0)
    /\ DashAggregated => Len(resp.body.rows) \in 1..5
    /\ (DashCompared /\ Len(resp.body.rows) = 0) => ~DashAggregated

\* C18 (amended): aggregation runs on 1 to 5 channels only; the API rejects
\* a comparison of more than 5 ids before any collaborator call, with 400
\* when the client is initialised and with 503 when it is not; the
\* dashboard aggregates no empty list and none of more than 5.
C18_AggregationSize ==
    /\ ApiAggregated => Len(resp.body.channels) \in 1..5
    /\ (Compared /\ Len(resp.req.fs) > 5)
           => /\ resp.calls = 0
              /\ resp.status = (IF youtube THEN 400 ELSE 503)
    /\ DashAggregated
           => /\ Len(resp.body.rows) \in 1..5
              /\ Len(resp.body.rows) <= Len(resp.req.fs)
    /\ (DashCompared /\ Len(resp.body.rows) = 0) => ~DashAggregated

\* Six ids reach the API with the client initialised and are rejected
\* with 400 before any call.
C18_Witness ==
    /\ Compared /\ youtube /\ Len(resp.req.fs) = 6
    /\ resp.status = 400 /\ resp.calls = 0

\* The dashboard operations that take a text input, and a run of one with
\* nothing entered.
TextInputOps == {"search", "channel", "compare", "keywords"}
NoInput ==
    /\ shell = "dash" /\ resp.op \in TextInputOps
    /\ \/ Has(resp.req, "keyword") /\ resp.req.keyword = ""
       \/ Has(resp.req, "channel_id") /\ resp.req.channel_id = ""
       \/ resp.op = "compare" /\ Len(resp.req.fs) = 0
       \/ Has(resp.req, "base") /\ resp.req.base = ""

\* The messages that tell the user nothing was entered.
NoInputMessages ==
    {"warning_no_keyword", "warning_no_channel_id", "warning_no_base_keyword"}

\* C19: a dashboard operation with a text input that is triggered with
\* nothing entered issues no collaborator request and shows a "no input"
\* message; no run that issued a request shows that message, whether the
\* request returned nothing or the collaborator raised.
C19_NoInputMessage ==
    /\ NoInput => (resp.calls = 0 /\ resp.msg \in NoInputMessages)
    /\ (shell = "dash" /\ resp.calls > 0) => resp.msg \notin NoInputMessages

\* C20: once startup has run, no step of any operation changes the client
\* (set or None), and none changes anything else the process keeps between
\* requests: which shell it runs, that it is serving, its sort build.
C20_ClientReadOnly ==
    [][pc = "serving" => UNCHANGED <<youtube, shell, pc, argsort>>]_vars

\* The second of two comparisons is answered in a process whose client was
\* built.
C20_Witness ==
    /\ pc = "serving" /\ youtube
    /\ resp.op = "compare-channels-again" /\ resp.status = 200 /\ resp.calls > 0

\* A request of search, video, channel or trending that entered the
\* handler's try block (the client is set, so the first call was issued).
ErrorOps == {"search", "video", "channel", "trending"}
Handled == shell = "api" /\ resp.op \in ErrorOps /\ resp.calls > 0

\* What the first failing call of the request raised, outside the inner
\* try of analyze_video; exc = "none" when every such call returned.
CallFailure ==
    IF resp.op = "channel"
    THEN [exc |-> resp.req.fs[1].exc, status |-> resp.req.fs[1].status]
    ELSE resp.req.net.err

\* The comment call of analyze_video was issued and failed, by an error
\* of the call or by a thread that lacks a field.
CommentFailure ==
    /\ resp.op = "video" /\ Len(resp.req.items) = 1
    /\ Has(resp.req.items[1], "statistics") /\ Has(resp.req.items[1], "snippet")
    /\ resp.req.comments.exc # "none"

\* What the handler's try block did with the request.
TryResult ==
    CASE resp.op = "search" -> search_videos_try(resp.req)
      [] resp.op = "video" -> analyze_video_try(resp.req)
      [] resp.op = "channel" -> analyze_channel_try(resp.req.fs[1])
      [] resp.op = "trending" -> get_trending_videos_try(resp.req)

\* A success response or an HTTP error response.
IsHttpOutcome == resp.status = 200 \/ resp.status \in 400..599

\* The status rule for the calls outside the inner try, and for what the
\* try block raises itself.
StatusOfOuterFailure ==
    Handled
        => /\ CallFailure.exc = "HttpError" => resp.status = CallFailure.status
           /\ CallFailure.exc \notin {"none", "HttpError"} => resp.status = 500
           /\ (CallFailure.exc = "none" /\ TryResult.exc # "none") => resp.status = 500
           /\ TryResult.exc = "none" => resp.status = 200

\* C21 as stated: for search, video, channel and trending, a collaborator
\* call that fails with an HTTP error of status s ends the request with
\* status s, every other exception ends it with 500, and the request always
\* ends with a success or an HTTP error response.
C21_AsStated ==
    /\ StatusOfOuterFailure
    /\ (Handled /\ CommentFailure)
           => resp.status = (IF resp.req.comments.exc = "HttpError"
                             THEN resp.req.comments.status ELSE 500)
    /\ (shell = "api" /\ resp.op \in ErrorOps) => IsHttpOutcome

\* C21 (amended): for search, video, channel and trending, a collaborator
\* call other than the comment fetch of analyze_video that fails with an
\* HTTP error of status s ends the request with status s, and every other
\* exception of the try block ends it with 500; a failure of the comment
\* fetch is absorbed, the request ending as it would with no comments; the
\* request always ends with a success or an HTTP error response.
C21_ErrorStatus ==
    /\ StatusOfOuterFailure
    /\ (Handled /\ CommentFailure)
           => LET quiet == analyze_video([resp.req EXCEPT !.comments = NoComments])
              IN  /\ resp.status = quiet.status
                  /\ resp.body = quiet.body
    /\ (shell = "api" /\ resp.op \in ErrorOps) => IsHttpOutcome

\* The second call of a search fails with the HTTP error 404 and the
\* request ends with 404.
C21_Witness ==
    /\ Handled /\ resp.op = "search"
    /\ resp.req.net = [at |-> 2, err |-> [exc |-> "HttpError", status |-> 404]]
    /\ resp.status = 404 /\ resp.calls = 2

\* The comment fetch fails with the HTTP error 403 and the request
\* succeeds with no comments.
CommentFailureAbsorbed ==
    /\ Handled /\ CommentFailure
    /\ resp.req.comments.exc = "HttpError" /\ resp.req.comments.status = 403
    /\ resp.status = 200 /\ resp.body.top_comments = <<>>

====
